---- MODULE Spec2Model ----
(***************************************************************************)
(* Context budget and compaction engine of claude_code_open/context.py.    *)
(*                                                                         *)
(* Encoding of Python values:                                              *)
(*   str            a sequence of one-character strings, <<"h","i">>       *)
(*   Optional[x]    <<>> for None, <<x>> for a value                       *)
(*   message        [role, content]; content is a tagged record            *)
(*                  [kind |-> "str", text, blocks] or                      *)
(*                  [kind |-> "list", text, blocks]                        *)
(*   content block  [type, text, name, input, content, content_is_str];    *)
(*                  input holds str(block["input"]); content holds the     *)
(*                  string, or str(content) when content is not a str      *)
(*   float          tokens are kept as exact fractions; the products       *)
(*                  int(n * 0.7) carry the values where binary floating    *)
(*                  point falls below the exact product                    *)
(* The timestamp of a turn (wall clock, written once, read by no           *)
(* operation of the module) and the api_client handle are not modelled.    *)
(***************************************************************************)
EXTENDS Integers, Sequences, FiniteSets, TLC

VARIABLES
    config,             \* ContextManager.config, fixed at construction
    turns,              \* ContextManager.turns
    system_prompt,      \* ContextManager.system_prompt
    compression_count,  \* ContextManager.compression_count
    saved_tokens,       \* ContextManager.saved_tokens
    lastOp,             \* the operation the caller invoked last
    out,                \* what that operation returned (None for a mutator)
    reached             \* history: for each stored turn, whether its add_turn
                        \* found get_used_tokens() >= threshold in _maybe_compress

vars == <<config, turns, system_prompt, compression_count, saved_tokens,
          lastOp, out, reached>>

(***************************************************************************)
(* Bounds of the model                                                     *)
(***************************************************************************)
MaxTurns == 3
MaxKeep == 2
MaxPasses == 2
MaxLimit == 4
MaxToolChars == 40
MaxText == 5
MaxBlocks == 2
MaxBatch == 2
MaxPieces == 3
ScenarioTurnCount == 15

(***************************************************************************)
(* Strings                                                                 *)
(***************************************************************************)
None == <<>>
Some(x) == <<x>>

Max(a, b) == IF a >= b THEN a ELSE b
Min(a, b) == IF a <= b THEN a ELSE b

Rep(c, n) == [i \in 1..n |-> c]

\* s[a:b] of Python for 0 <= a, 0 <= b (0-based, end exclusive, clipped)
Slice(s, a, b) ==
    LET lo == Min(a, Len(s))
        hi == Min(b, Len(s))
    IN  IF hi <= lo THEN <<>> ELSE [i \in 1..(hi - lo) |-> s[lo + i]]

\* s[-k:] of Python for k >= 0: -0 is 0, so s[-0:] is the whole string
TailSlice(s, k) ==
    IF k = 0 THEN s
    ELSE Slice(s, Max(Len(s) - k, 0), Len(s))

\* s[:-k] of Python for k >= 0: s[:-0] is s[:0], the empty sequence
HeadSlice(s, k) ==
    IF k = 0 THEN <<>>
    ELSE Slice(s, 0, Max(Len(s) - k, 0))

CountIn(s, chars) == Cardinality({i \in DOMAIN s : s[i] \in chars})

\* p occurs in s at the 0-based offset i
OccursAt(s, p, i) ==
    i + Len(p) <= Len(s) /\ \A j \in 1..Len(p) : s[i + j] = p[j]

StartsWith(s, p) == OccursAt(s, p, 0)

Contains(s, p) == \E i \in 0..Len(s) : OccursAt(s, p, i)

Whitespace == {" ", "\n", "\t", "\r"}

RECURSIVE lstrip(_)
lstrip(s) ==
    IF s # <<>> /\ Head(s) \in Whitespace THEN lstrip(Tail(s)) ELSE s

RECURSIVE JoinWith(_, _)
JoinWith(parts, sep) ==
    IF parts = <<>> THEN <<>>
    ELSE IF Len(parts) = 1 THEN parts[1]
    ELSE parts[1] \o sep \o JoinWith(Tail(parts), sep)

Digits == <<"0", "1", "2", "3", "4", "5", "6", "7", "8", "9">>

\* str(n) for an int n >= 0
RECURSIVE IntToStr(_)
IntToStr(n) ==
    IF n < 10 THEN <<Digits[n + 1]>>
    ELSE IntToStr(n \div 10) \o <<Digits[(n % 10) + 1]>>

\* int(n * 0.7) in binary floating point: the exact floor, except where the
\* double product n * 0.7 lies just below an integer (n = 90: 62.99999999999999).
\* The set lists every such n up to 5000, and the default window 180000.
FloatLow07 ==
    { 10 * j : j \in {9} \cup 17..18 \cup 33..36 \cup 65..73 \cup 129..146
                      \cup 257..292 }
        \cup {180000}

IntMulTenths(n, tenths) ==
    IF tenths = 7 /\ n \in FloatLow07 THEN ((7 * n) \div 10) - 1
    ELSE (tenths * n) \div 10

CeilDiv(num, den) == (num + den - 1) \div den

(***************************************************************************)
(* TokenEstimator                                                          *)
(***************************************************************************)
\* a character outside the printable ASCII range is written by its code point;
\* these stand for the ranges U+4E00..U+9FFF and U+3040..U+30FF
AsianChars == {"U+4E2D", "U+3042"}

SpecialChars == {"{", "}", "[", "]", "(", ")", ".", ",", ";", ":", "!", "?",
                 "<", ">"}

CodeKeywords == {
    <<"f","u","n","c","t","i","o","n"," ">>,
    <<"c","l","a","s","s"," ">>,
    <<"c","o","n","s","t"," ">>,
    <<"l","e","t"," ">>,
    <<"v","a","r"," ">>,
    <<"i","m","p","o","r","t"," ">>,
    <<"e","x","p","o","r","t"," ">> }

\* three backquotes (U+0060), the fenced code marker
Fence == <<"U+0060", "U+0060", "U+0060">>

has_asian(text) == \E i \in DOMAIN text : text[i] \in AsianChars

has_code(text) ==
    \/ StartsWith(lstrip(text), Fence)
    \/ \E kw \in CodeKeywords : Contains(text, kw)

\* variant: a text that looks like code is counted as code, whatever else it holds
chars_per_token_x2_CodeFirst(text) ==
    IF has_code(text) THEN 6 ELSE IF has_asian(text) THEN 4 ELSE 7

\* twice chars_per_token: 2.0 -> 4, 3.0 -> 6, CHARS_PER_TOKEN = 3.5 -> 7
chars_per_token_x2(text) ==
    IF has_asian(text) THEN 4 ELSE IF has_code(text) THEN 6 ELSE 7

\* tokens = len/cpt + 0.1 * special + 0.5 * newlines, rounded up
estimate_tokens(text) ==
    IF text = <<>> THEN 0
    ELSE LET d2 == chars_per_token_x2(text)
             special_chars == CountIn(text, SpecialChars)
             newlines == CountIn(text, {"\n"})
         IN  CeilDiv(20 * Len(text) + d2 * special_chars + 5 * d2 * newlines,
                     10 * d2)

RECURSIVE SumSeq(_)
SumSeq(s) == IF s = <<>> THEN 0 ELSE Head(s) + SumSeq(Tail(s))

\* variant: a block of an unknown type is charged for its text
block_tokens_ChargesUnknown(block) ==
    IF block.type = "text" THEN estimate_tokens(block.text)
    ELSE IF block.type = "tool_use"
         THEN estimate_tokens(block.name) + estimate_tokens(block.input)
    ELSE IF block.type = "tool_result" THEN estimate_tokens(block.content)
    ELSE IF block.type = "image" THEN 1000
    ELSE estimate_tokens(block.text)

block_tokens(block) ==
    IF block.type = "text" THEN estimate_tokens(block.text)
    ELSE IF block.type = "tool_use"
         THEN estimate_tokens(block.name) + estimate_tokens(block.input)
    ELSE IF block.type = "tool_result" THEN estimate_tokens(block.content)
    ELSE IF block.type = "image" THEN 1000
    ELSE 0

estimate_message_tokens(message) ==
    IF message.content.kind = "str"
    THEN estimate_tokens(message.content.text) + 10
    ELSE 10 + SumSeq([i \in DOMAIN message.content.blocks |->
                         block_tokens(message.content.blocks[i])])

estimate_total_tokens(messages) ==
    SumSeq([i \in DOMAIN messages |-> estimate_message_tokens(messages[i])])

(***************************************************************************)
(* ContentCompressor                                                       *)
(***************************************************************************)
Split(s, sep) ==
    LET cuts == <<0>> \o SelectSeq([i \in 1..Len(s) |-> IF s[i] = sep THEN i ELSE 0],
                                   LAMBDA x : x > 0) \o <<Len(s) + 1>>
    IN  [j \in 1..(Len(cuts) - 1) |-> Slice(s, cuts[j], cuts[j + 1] - 1)]

LinesOmitted == <<" ","l","i","n","e","s"," ","o","m","i","t","t","e","d","]"," ",".",".",".">>
CharsOmitted == <<" ","c","h","a","r","s"," ","o","m","i","t","t","e","d","]"," ",".",".",".">>
MarkerOpen == <<".", ".", ".", " ", "[">>

compress_code_block(code, max_lines) ==
    LET lines == Split(code, "\n")
        keep_head == IntMulTenths(max_lines, 6)
        keep_tail == max_lines - keep_head
        head == JoinWith(Slice(lines, 0, keep_head), <<"\n">>)
        tail == JoinWith(TailSlice(lines, keep_tail), <<"\n">>)
        omitted == Len(lines) - max_lines
    IN  IF Len(lines) <= max_lines THEN code
        ELSE head \o <<"\n", "\n">> \o MarkerOpen \o IntToStr(omitted)
                  \o LinesOmitted \o <<"\n", "\n">> \o tail

\* variant: the tail is sized as 30% of max_chars on its own
compress_tool_output_TailShare(content, max_chars) ==
    LET keep_head == IntMulTenths(max_chars, 7)
        keep_tail == IntMulTenths(max_chars, 3)
        head == Slice(content, 0, keep_head)
        tail == TailSlice(content, keep_tail)
        omitted == Len(content) - max_chars
    IN  IF Len(content) <= max_chars THEN content
        ELSE head \o <<"\n">> \o MarkerOpen \o IntToStr(omitted)
                  \o CharsOmitted \o <<"\n">> \o tail

compress_tool_output(content, max_chars) ==
    LET keep_head == IntMulTenths(max_chars, 7)
        keep_tail == max_chars - keep_head
        head == Slice(content, 0, keep_head)
        tail == TailSlice(content, keep_tail)
        omitted == Len(content) - max_chars
    IN  IF Len(content) <= max_chars THEN content
        ELSE head \o <<"\n">> \o MarkerOpen \o IntToStr(omitted)
                  \o CharsOmitted \o <<"\n">> \o tail

\* variant: every tool-result block is cut, whatever its content is
compress_block_AnyToolResult(block, cfg) ==
    IF block.type = "tool_result"
    THEN [block EXCEPT !.content =
              compress_tool_output(block.content, cfg.tool_output_max_chars)]
    ELSE block

compress_block(block, cfg) ==
    IF block.type = "tool_result" /\ block.content_is_str
    THEN [block EXCEPT !.content =
              compress_tool_output(block.content, cfg.tool_output_max_chars)]
    ELSE block

compress_message(message, cfg) ==
    IF message.content.kind # "list" THEN message
    ELSE [message EXCEPT !.content.blocks =
              [i \in DOMAIN message.content.blocks |->
                  compress_block(message.content.blocks[i], cfg)]]

(***************************************************************************)
(* SummaryBuilder                                                          *)
(***************************************************************************)
UserPrefix == <<"U","s","e","r",":"," ">>
AssistantPrefix == <<"A","s","s","i","s","t","a","n","t",":"," ">>

\* variant: a tool invocation is flattened to its tool name
message_to_text_KeepsToolUse(message) ==
    IF message.content.kind = "str" THEN message.content.text
    ELSE LET blocks == message.content.blocks
             kept == SelectSeq(blocks,
                         LAMBDA b : b.type \in {"text", "tool_result", "tool_use"})
             parts == [i \in DOMAIN kept |->
                          IF kept[i].type = "text" THEN kept[i].text
                          ELSE IF kept[i].type = "tool_use" THEN kept[i].name
                          ELSE kept[i].content]
         IN  JoinWith(parts, <<" ">>)

message_to_text(message) ==
    IF message.content.kind = "str" THEN message.content.text
    ELSE LET blocks == message.content.blocks
             kept == SelectSeq(blocks,
                         LAMBDA b : b.type = "text" \/ b.type = "tool_result")
             parts == [i \in DOMAIN kept |->
                          IF kept[i].type = "text" THEN kept[i].text
                          ELSE kept[i].content]
         IN  JoinWith(parts, <<" ">>)

create_summary(ts) ==
    LET lines == [j \in 1..(2 * Len(ts)) |->
                     IF j % 2 = 1
                     THEN UserPrefix \o message_to_text(ts[(j + 1) \div 2].user)
                     ELSE AssistantPrefix \o message_to_text(ts[j \div 2].assistant)]
    IN  JoinWith(lines, <<"\n">>)

(***************************************************************************)
(* ContextManager: pure parts                                              *)
(* M is the mutable part of a manager:                                     *)
(*   [turns, saved_tokens, compression_count]                              *)
(***************************************************************************)
StrContent(text) == [kind |-> "str", text |-> text, blocks |-> <<>>]
ListContent(blocks) == [kind |-> "list", text |-> <<>>, blocks |-> blocks]

OrZero(opt) == IF opt = None THEN 0 ELSE opt[1]

usage_total(u) ==
    u.input_tokens + OrZero(u.cache_creation_tokens)
        + OrZero(u.cache_read_tokens) + u.output_tokens
        + OrZero(u.thinking_tokens)

\* variant: reported usage outranks a recorded summary
turn_used_tokens_UsageFirst(turn) ==
    IF turn.api_usage # None THEN usage_total(turn.api_usage[1])
    ELSE IF turn.summarized /\ turn.summary # None /\ turn.summary[1] # <<>>
    THEN estimate_tokens(turn.summary[1])
    ELSE turn.token_estimate

turn_used_tokens(turn) ==
    IF turn.summarized /\ turn.summary # None /\ turn.summary[1] # <<>>
    THEN estimate_tokens(turn.summary[1])
    ELSE IF turn.api_usage # None THEN usage_total(turn.api_usage[1])
    ELSE turn.token_estimate

\* variant: the system prompt is charged like a message, with the overhead
get_used_tokens_PromptOverhead(prompt, ts) ==
    estimate_tokens(prompt) + 10
        + SumSeq([i \in DOMAIN ts |-> turn_used_tokens(ts[i])])

get_used_tokens(prompt, ts) ==
    estimate_tokens(prompt)
        + SumSeq([i \in DOMAIN ts |-> turn_used_tokens(ts[i])])

\* variant: an overdrawn budget is reported as 0
get_available_tokens_Clamped(cfg, prompt, ts) ==
    LET used == get_used_tokens(prompt, ts)
    IN  Max(0, cfg.max_tokens - cfg.reserve_tokens - used)

\* variant: the reserve is not taken off the window
get_available_tokens_NoReserve(cfg, prompt, ts) ==
    LET used == get_used_tokens(prompt, ts)
    IN  cfg.max_tokens - used

get_available_tokens(cfg, prompt, ts) ==
    cfg.max_tokens - cfg.reserve_tokens - get_used_tokens(prompt, ts)

\* variant: the pass folds every stored turn, the recent ones included
compress_FoldAll(M, cfg, force) ==
    LET recent_count == cfg.keep_recent_messages
        to_summarize == M.turns
        before_tokens ==
            SumSeq([i \in DOMAIN to_summarize |-> to_summarize[i].token_estimate])
        summary == create_summary(to_summarize)
        after_tokens == estimate_tokens(summary)
    IN  IF Len(M.turns) <= recent_count THEN M
        ELSE [turns |->
                 [i \in DOMAIN M.turns |->
                     IF ~M.turns[i].summarized
                     THEN [M.turns[i] EXCEPT !.summarized = TRUE,
                                             !.summary = Some(summary)]
                     ELSE M.turns[i]],
              saved_tokens |->
                 M.saved_tokens + Max(0, before_tokens - after_tokens),
              compression_count |-> M.compression_count + 1]

\* variant: the pass is counted before the turn-count guard
compress_CountsEveryCall(M, cfg, force) ==
    LET recent_count == cfg.keep_recent_messages
        to_summarize == HeadSlice(M.turns, recent_count)
        before_tokens ==
            SumSeq([i \in DOMAIN to_summarize |-> to_summarize[i].token_estimate])
        summary == create_summary(to_summarize)
        after_tokens == estimate_tokens(summary)
        counted == [M EXCEPT !.compression_count = @ + 1]
    IN  IF Len(M.turns) <= recent_count THEN counted
        ELSE IF to_summarize = <<>> THEN counted
        ELSE [turns |->
                 [i \in DOMAIN M.turns |->
                     IF i <= Len(to_summarize) /\ ~M.turns[i].summarized
                     THEN [M.turns[i] EXCEPT !.summarized = TRUE,
                                             !.summary = Some(summary)]
                     ELSE M.turns[i]],
              saved_tokens |->
                 M.saved_tokens + Max(0, before_tokens - after_tokens),
              compression_count |-> M.compression_count + 1]

\* variant: a pass folds only the newest turn of the batch
compress_NewestOnly(M, cfg, force) ==
    LET recent_count == cfg.keep_recent_messages
        to_summarize == HeadSlice(M.turns, recent_count)
        before_tokens ==
            SumSeq([i \in DOMAIN to_summarize |-> to_summarize[i].token_estimate])
        summary == create_summary(to_summarize)
        after_tokens == estimate_tokens(summary)
    IN  IF Len(M.turns) <= recent_count THEN M
        ELSE IF to_summarize = <<>> THEN M
        ELSE [turns |->
                 [i \in DOMAIN M.turns |->
                     IF i = Len(to_summarize) /\ ~M.turns[i].summarized
                     THEN [M.turns[i] EXCEPT !.summarized = TRUE,
                                             !.summary = Some(summary)]
                     ELSE M.turns[i]],
              saved_tokens |->
                 M.saved_tokens + Max(0, before_tokens - after_tokens),
              compression_count |-> M.compression_count + 1]

\* variant: a pass on a batch with nothing new to fold renders the summary
\* again for the turns folded before
compress_Refreshes(M, cfg, force) ==
    LET recent_count == cfg.keep_recent_messages
        to_summarize == HeadSlice(M.turns, recent_count)
        before_tokens ==
            SumSeq([i \in DOMAIN to_summarize |-> to_summarize[i].token_estimate])
        summary == create_summary(to_summarize)
        after_tokens == estimate_tokens(summary)
        stale == \A i \in DOMAIN to_summarize : to_summarize[i].summarized
    IN  IF Len(M.turns) <= recent_count THEN M
        ELSE IF to_summarize = <<>> THEN M
        ELSE [turns |->
                 [i \in DOMAIN M.turns |->
                     IF i <= Len(to_summarize) /\ ~M.turns[i].summarized
                     THEN [M.turns[i] EXCEPT !.summarized = TRUE,
                                             !.summary = Some(summary)]
                     ELSE IF i <= Len(to_summarize) /\ stale
                     THEN [M.turns[i] EXCEPT
                              !.summary = Some(summary \o <<"\n">>)]
                     ELSE M.turns[i]],
              saved_tokens |->
                 M.saved_tokens + Max(0, before_tokens - after_tokens),
              compression_count |-> M.compression_count + 1]

\* variant: one accounting: the pass leaves its summary on the last turn of
\* the batch and an empty one on the turns before it
compress_SingleCharge(M, cfg, force) ==
    LET recent_count == cfg.keep_recent_messages
        to_summarize == HeadSlice(M.turns, recent_count)
        before_tokens ==
            SumSeq([i \in DOMAIN to_summarize |-> to_summarize[i].token_estimate])
        summary == create_summary(to_summarize)
        after_tokens == estimate_tokens(summary)
    IN  IF Len(M.turns) <= recent_count THEN M
        ELSE IF to_summarize = <<>> THEN M
        ELSE [turns |->
                 [i \in DOMAIN M.turns |->
                     IF i < Len(to_summarize)
                     THEN [M.turns[i] EXCEPT !.summarized = TRUE,
                                             !.summary = Some(<<>>)]
                     ELSE IF i = Len(to_summarize)
                     THEN [M.turns[i] EXCEPT !.summarized = TRUE,
                                             !.summary = Some(summary)]
                     ELSE M.turns[i]],
              saved_tokens |->
                 M.saved_tokens + Max(0, before_tokens - after_tokens),
              compression_count |-> M.compression_count + 1]

\* variant: a pass attaches its summary to every turn of the batch
compress_Resummarizes(M, cfg, force) ==
    LET recent_count == cfg.keep_recent_messages
        to_summarize == HeadSlice(M.turns, recent_count)
        before_tokens ==
            SumSeq([i \in DOMAIN to_summarize |-> to_summarize[i].token_estimate])
        summary == create_summary(to_summarize)
        after_tokens == estimate_tokens(summary)
    IN  IF Len(M.turns) <= recent_count THEN M
        ELSE IF to_summarize = <<>> THEN M
        ELSE [turns |->
                 [i \in DOMAIN M.turns |->
                     IF i <= Len(to_summarize)
                     THEN [M.turns[i] EXCEPT !.summarized = TRUE,
                                             !.summary = Some(summary)]
                     ELSE M.turns[i]],
              saved_tokens |->
                 M.saved_tokens + Max(0, before_tokens - after_tokens),
              compression_count |-> M.compression_count + 1]

\* variant: a pass releases the turns that an earlier pass folded
compress_Releases(M, cfg, force) ==
    LET recent_count == cfg.keep_recent_messages
        to_summarize == HeadSlice(M.turns, recent_count)
        before_tokens ==
            SumSeq([i \in DOMAIN to_summarize |-> to_summarize[i].token_estimate])
        summary == create_summary(to_summarize)
        after_tokens == estimate_tokens(summary)
    IN  IF Len(M.turns) <= recent_count THEN M
        ELSE IF to_summarize = <<>> THEN M
        ELSE [turns |->
                 [i \in DOMAIN M.turns |->
                     IF i <= Len(to_summarize) /\ ~M.turns[i].summarized
                     THEN [M.turns[i] EXCEPT !.summarized = TRUE,
                                             !.summary = Some(summary)]
                     ELSE [M.turns[i] EXCEPT !.summarized = FALSE,
                                             !.summary = None]],
              saved_tokens |->
                 M.saved_tokens + Max(0, before_tokens - after_tokens),
              compression_count |-> M.compression_count + 1]

\* variant: a pass re-estimates the turns it folds at the size of the summary
compress_Reestimates(M, cfg, force) ==
    LET recent_count == cfg.keep_recent_messages
        to_summarize == HeadSlice(M.turns, recent_count)
        before_tokens ==
            SumSeq([i \in DOMAIN to_summarize |-> to_summarize[i].token_estimate])
        summary == create_summary(to_summarize)
        after_tokens == estimate_tokens(summary)
    IN  IF Len(M.turns) <= recent_count THEN M
        ELSE IF to_summarize = <<>> THEN M
        ELSE [turns |->
                 [i \in DOMAIN M.turns |->
                     IF i <= Len(to_summarize) /\ ~M.turns[i].summarized
                     THEN [M.turns[i] EXCEPT !.summarized = TRUE,
                                             !.summary = Some(summary),
                                             !.token_estimate = after_tokens]
                     ELSE M.turns[i]],
              saved_tokens |->
                 M.saved_tokens + Max(0, before_tokens - after_tokens),
              compression_count |-> M.compression_count + 1]

\* _compress(force): force is accepted and never read
compress(M, cfg, force) ==
    LET recent_count == cfg.keep_recent_messages
        to_summarize == HeadSlice(M.turns, recent_count)
        before_tokens ==
            SumSeq([i \in DOMAIN to_summarize |-> to_summarize[i].token_estimate])
        summary == create_summary(to_summarize)
        after_tokens == estimate_tokens(summary)
    IN  IF Len(M.turns) <= recent_count THEN M
        ELSE IF to_summarize = <<>> THEN M
        ELSE [turns |->
                 [i \in DOMAIN M.turns |->
                     IF i <= Len(to_summarize) /\ ~M.turns[i].summarized
                     THEN [M.turns[i] EXCEPT !.summarized = TRUE,
                                             !.summary = Some(summary)]
                     ELSE M.turns[i]],
              saved_tokens |->
                 M.saved_tokens + Max(0, before_tokens - after_tokens),
              compression_count |-> M.compression_count + 1]

threshold(cfg) == IntMulTenths(cfg.max_tokens, cfg.summarize_threshold_x10)

\* variant: the automatic path runs only while nothing has been folded yet
maybe_compress_OnlyFirst(M, cfg, prompt) ==
    IF get_used_tokens(prompt, M.turns) < threshold(cfg) THEN M
    ELSE IF M.compression_count > 0 THEN M
    ELSE compress(M, cfg, FALSE)

\* variant: a store exactly at the threshold is left alone
maybe_compress_AboveOnly(M, cfg, prompt) ==
    IF get_used_tokens(prompt, M.turns) <= threshold(cfg) THEN M
    ELSE compress(M, cfg, FALSE)

maybe_compress(M, cfg, prompt) ==
    IF get_used_tokens(prompt, M.turns) < threshold(cfg) THEN M
    ELSE compress(M, cfg, FALSE)

\* variant: a compressed turn adds its whole original estimate to the savings
store_turn_SavesOriginal(M, cfg, user, assistant, api_usage) ==
    LET original_tokens ==
            estimate_message_tokens(user) + estimate_message_tokens(assistant)
        incremental == cfg.enable_incremental_compression
        processed_user ==
            IF incremental THEN compress_message(user, cfg) ELSE user
        processed_assistant ==
            IF incremental THEN compress_message(assistant, cfg) ELSE assistant
        compressed_tokens ==
            estimate_message_tokens(processed_user)
                + estimate_message_tokens(processed_assistant)
        compressed == incremental /\ compressed_tokens < original_tokens
        token_estimate ==
            estimate_message_tokens(processed_user)
                + estimate_message_tokens(processed_assistant)
        turn == [user |-> processed_user,
                 assistant |-> processed_assistant,
                 token_estimate |-> token_estimate,
                 original_tokens |-> original_tokens,
                 summarized |-> FALSE,
                 summary |-> None,
                 compressed |-> compressed,
                 api_usage |-> api_usage]
    IN  [turns |-> Append(M.turns, turn),
         saved_tokens |->
             IF compressed
             THEN M.saved_tokens + original_tokens
             ELSE M.saved_tokens,
         compression_count |-> M.compression_count]

\* variant: the messages are compressed whatever the configuration says
store_turn_AlwaysCompresses(M, cfg, user, assistant, api_usage) ==
    LET original_tokens ==
            estimate_message_tokens(user) + estimate_message_tokens(assistant)
        incremental == TRUE
        processed_user ==
            IF incremental THEN compress_message(user, cfg) ELSE user
        processed_assistant ==
            IF incremental THEN compress_message(assistant, cfg) ELSE assistant
        compressed_tokens ==
            estimate_message_tokens(processed_user)
                + estimate_message_tokens(processed_assistant)
        compressed == incremental /\ compressed_tokens < original_tokens
        token_estimate ==
            estimate_message_tokens(processed_user)
                + estimate_message_tokens(processed_assistant)
        turn == [user |-> processed_user,
                 assistant |-> processed_assistant,
                 token_estimate |-> token_estimate,
                 original_tokens |-> original_tokens,
                 summarized |-> FALSE,
                 summary |-> None,
                 compressed |-> compressed,
                 api_usage |-> api_usage]
    IN  [turns |-> Append(M.turns, turn),
         saved_tokens |->
             IF compressed
             THEN M.saved_tokens + (original_tokens - compressed_tokens)
             ELSE M.saved_tokens,
         compression_count |-> M.compression_count]

\* variant: the new turn is put in front of the store
store_turn_Prepend(M, cfg, user, assistant, api_usage) ==
    LET original_tokens ==
            estimate_message_tokens(user) + estimate_message_tokens(assistant)
        incremental == cfg.enable_incremental_compression
        processed_user ==
            IF incremental THEN compress_message(user, cfg) ELSE user
        processed_assistant ==
            IF incremental THEN compress_message(assistant, cfg) ELSE assistant
        compressed_tokens ==
            estimate_message_tokens(processed_user)
                + estimate_message_tokens(processed_assistant)
        compressed == incremental /\ compressed_tokens < original_tokens
        token_estimate ==
            estimate_message_tokens(processed_user)
                + estimate_message_tokens(processed_assistant)
        turn == [user |-> processed_user,
                 assistant |-> processed_assistant,
                 token_estimate |-> token_estimate,
                 original_tokens |-> original_tokens,
                 summarized |-> FALSE,
                 summary |-> None,
                 compressed |-> compressed,
                 api_usage |-> api_usage]
    IN  [turns |-> <<turn>> \o M.turns,
         saved_tokens |->
             IF compressed
             THEN M.saved_tokens + (original_tokens - compressed_tokens)
             ELSE M.saved_tokens,
         compression_count |-> M.compression_count]

\* variant: the turn is flagged compressed unless the estimate grew
store_turn_FlagsEqual(M, cfg, user, assistant, api_usage) ==
    LET original_tokens ==
            estimate_message_tokens(user) + estimate_message_tokens(assistant)
        incremental == cfg.enable_incremental_compression
        processed_user ==
            IF incremental THEN compress_message(user, cfg) ELSE user
        processed_assistant ==
            IF incremental THEN compress_message(assistant, cfg) ELSE assistant
        compressed_tokens ==
            estimate_message_tokens(processed_user)
                + estimate_message_tokens(processed_assistant)
        compressed == incremental /\ compressed_tokens <= original_tokens
        token_estimate ==
            estimate_message_tokens(processed_user)
                + estimate_message_tokens(processed_assistant)
        turn == [user |-> processed_user,
                 assistant |-> processed_assistant,
                 token_estimate |-> token_estimate,
                 original_tokens |-> original_tokens,
                 summarized |-> FALSE,
                 summary |-> None,
                 compressed |-> compressed,
                 api_usage |-> api_usage]
    IN  [turns |-> Append(M.turns, turn),
         saved_tokens |->
             IF compressed
             THEN M.saved_tokens + (original_tokens - compressed_tokens)
             ELSE M.saved_tokens,
         compression_count |-> M.compression_count]

\* add_turn up to self.turns.append(...)
store_turn(M, cfg, user, assistant, api_usage) ==
    LET original_tokens ==
            estimate_message_tokens(user) + estimate_message_tokens(assistant)
        incremental == cfg.enable_incremental_compression
        processed_user ==
            IF incremental THEN compress_message(user, cfg) ELSE user
        processed_assistant ==
            IF incremental THEN compress_message(assistant, cfg) ELSE assistant
        compressed_tokens ==
            estimate_message_tokens(processed_user)
                + estimate_message_tokens(processed_assistant)
        compressed == incremental /\ compressed_tokens < original_tokens
        token_estimate ==
            estimate_message_tokens(processed_user)
                + estimate_message_tokens(processed_assistant)
        turn == [user |-> processed_user,
                 assistant |-> processed_assistant,
                 token_estimate |-> token_estimate,
                 original_tokens |-> original_tokens,
                 summarized |-> FALSE,
                 summary |-> None,
                 compressed |-> compressed,
                 api_usage |-> api_usage]
    IN  [turns |-> Append(M.turns, turn),
         saved_tokens |->
             IF compressed
             THEN M.saved_tokens + (original_tokens - compressed_tokens)
             ELSE M.saved_tokens,
         compression_count |-> M.compression_count]

add_turn(M, cfg, prompt, user, assistant, api_usage) ==
    maybe_compress(store_turn(M, cfg, user, assistant, api_usage), cfg, prompt)

AckText == <<"I"," ","u","n","d","e","r","s","t","a","n","d","."," ","I","'","l","l"," ","k","e","e","p"," ","t","h","i","s"," ","c","o","n","t","e","x","t"," ","i","n"," ","m","i","n","d",".">>

SummarizedTurns(ts) == SelectSeq(ts, LAMBDA t : t.summarized)
UnsummarizedTurns(ts) == SelectSeq(ts, LAMBDA t : ~t.summarized)

\* variant: the folded turns are sent again after their summary
get_messages_KeepsFolded(ts) ==
    LET summarized_turns == SummarizedTurns(ts)
        lead == IF summarized_turns # <<>>
                THEN << [role |-> "user",
                         content |-> StrContent(create_summary(summarized_turns))],
                        [role |-> "assistant", content |-> StrContent(AckText)] >>
                ELSE <<>>
    IN  lead \o [j \in 1..(2 * Len(ts)) |->
                    IF j % 2 = 1 THEN ts[(j + 1) \div 2].user
                    ELSE ts[j \div 2].assistant]

get_messages(ts) ==
    LET summarized_turns == SummarizedTurns(ts)
        raw == UnsummarizedTurns(ts)
        lead == IF summarized_turns # <<>>
                THEN << [role |-> "user",
                         content |-> StrContent(create_summary(summarized_turns))],
                        [role |-> "assistant", content |-> StrContent(AckText)] >>
                ELSE <<>>
    IN  lead \o [j \in 1..(2 * Len(raw)) |->
                    IF j % 2 = 1 THEN raw[(j + 1) \div 2].user
                    ELSE raw[j \div 2].assistant]

\* variant: the message counts are turn counts
get_stats_CountsTurns(M, prompt) ==
    LET summarized == Len(SummarizedTurns(M.turns))
        original_tokens ==
            SumSeq([i \in DOMAIN M.turns |-> M.turns[i].original_tokens])
        current_tokens == get_used_tokens(prompt, M.turns)
    IN  [total_messages |-> Len(M.turns),
         estimated_tokens |-> current_tokens,
         summarized_messages |-> summarized,
         compression_ratio |->
             IF original_tokens # 0
             THEN [num |-> current_tokens, den |-> original_tokens]
             ELSE [num |-> 1, den |-> 1],
         saved_tokens |-> M.saved_tokens,
         compression_count |-> M.compression_count]

\* compression_ratio is the fraction num/den (1.0 is 1/1)
get_stats(M, prompt) ==
    LET summarized == Len(SummarizedTurns(M.turns))
        original_tokens ==
            SumSeq([i \in DOMAIN M.turns |-> M.turns[i].original_tokens])
        current_tokens == get_used_tokens(prompt, M.turns)
    IN  [total_messages |-> Len(M.turns) * 2,
         estimated_tokens |-> current_tokens,
         summarized_messages |-> summarized * 2,
         compression_ratio |->
             IF original_tokens # 0
             THEN [num |-> current_tokens, den |-> original_tokens]
             ELSE [num |-> 1, den |-> 1],
         saved_tokens |-> M.saved_tokens,
         compression_count |-> M.compression_count]

(***************************************************************************)
(* Inputs                                                                  *)
(***************************************************************************)
Block(type, text, name, input, content, content_is_str) ==
    [type |-> type, text |-> text, name |-> name, input |-> input,
     content |-> content, content_is_str |-> content_is_str]

TextBlock(text) == Block("text", text, <<>>, <<>>, <<>>, FALSE)
ToolResultBlock(content) == Block("tool_result", <<>>, <<>>, <<>>, content, TRUE)

Usage(input, output, cache_read, cache_creation, thinking) ==
    [input_tokens |-> input, output_tokens |-> output,
     cache_read_tokens |-> cache_read,
     cache_creation_tokens |-> cache_creation,
     thinking_tokens |-> thinking]

UserHi == [role |-> "user", content |-> StrContent(<<"h", "i">>)]
AssistantOk == [role |-> "assistant", content |-> StrContent(<<"o", "k">>)]
AssistantTool(n) ==
    [role |-> "assistant",
     content |-> ListContent(<<ToolResultBlock(Rep("a", n))>>)]

TurnInput(user, assistant, api_usage) ==
    [user |-> user, assistant |-> assistant, api_usage |-> api_usage]

\* what a caller passes to add_turn: plain text with no reported usage, a
\* tool result one character over the limit, and a long tool result
TurnInputs == {
    TurnInput(UserHi, AssistantOk, None),
    TurnInput(UserHi, AssistantTool(4), Some(Usage(5, 2, None, None, None))),
    TurnInput(UserHi, AssistantTool(60),
              Some(Usage(1, 1, Some(3), Some(2), Some(4)))) }

Prompts == { <<>>, <<"B","e"," ","b","r","i","e","f",".">> }

Config(max_tokens, reserve_tokens, threshold_x10, keep, max_chars, incremental) ==
    [max_tokens |-> max_tokens,
     reserve_tokens |-> reserve_tokens,
     summarize_threshold_x10 |-> threshold_x10,
     keep_recent_messages |-> keep,
     enable_ai_summary |-> FALSE,
     code_block_max_lines |-> 50,
     tool_output_max_chars |-> max_chars,
     enable_incremental_compression |-> incremental]

\* a window of 40 tokens (threshold 28) for every keep >= 1, a window of 30
\* (threshold 21, reached by every turn) for keep = 0, and one configuration
\* with incremental compression switched off; the reserve is 0, 5, ... below
\* the window, equal to it (30) and above it (50)
Configs ==
    { Config(40, 5 * (k - 1), 7, k, 3, TRUE) : k \in 1..MaxKeep }
        \cup { Config(30, 30, 7, 0, 3, TRUE), Config(40, 50, 7, 1, 3, FALSE) }

(***************************************************************************)
(* ContextManager: operations                                              *)
(***************************************************************************)
Mgr == [turns |-> turns, saved_tokens |-> saved_tokens,
        compression_count |-> compression_count]

SetMgr(M) ==
    /\ turns' = M.turns
    /\ saved_tokens' = M.saved_tokens
    /\ compression_count' = M.compression_count

Manager(cfg) ==
    /\ config = cfg
    /\ turns = <<>>
    /\ system_prompt = <<>>
    /\ compression_count = 0
    /\ saved_tokens = 0
    /\ lastOp = "init"
    /\ out = None
    /\ reached = <<>>

Init == \E cfg \in Configs : Manager(cfg)

\* variant: a new prompt re-evaluates the compaction trigger
SetSystemPrompt_Recompacts(prompt) ==
    /\ system_prompt' = prompt
    /\ SetMgr(maybe_compress(Mgr, config, prompt))
    /\ lastOp' = "set_system_prompt"
    /\ out' = None
    /\ UNCHANGED <<config, reached>>

SetSystemPrompt(prompt) ==
    /\ system_prompt' = prompt
    /\ lastOp' = "set_system_prompt"
    /\ out' = None
    /\ UNCHANGED <<config, turns, compression_count, saved_tokens, reached>>

AddTurn(user, assistant, api_usage) ==
    /\ SetMgr(add_turn(Mgr, config, system_prompt, user, assistant, api_usage))
    /\ reached' = Append(reached,
           get_used_tokens(system_prompt,
               store_turn(Mgr, config, user, assistant, api_usage).turns)
             >= threshold(config))
    /\ lastOp' = "add_turn"
    /\ out' = None
    /\ UNCHANGED <<config, system_prompt>>

Compact ==
    /\ compression_count < MaxPasses
    /\ SetMgr(compress(Mgr, config, TRUE))
    /\ lastOp' = "compact"
    /\ out' = None
    /\ UNCHANGED <<config, system_prompt, reached>>

\* variant: reset forgets the turns and the pass count, not the savings
Reset_KeepsSaved ==
    /\ turns' = <<>>
    /\ compression_count' = 0
    /\ reached' = <<>>
    /\ lastOp' = "reset"
    /\ out' = None
    /\ UNCHANGED <<config, system_prompt, saved_tokens>>

Reset ==
    /\ turns' = <<>>
    /\ compression_count' = 0
    /\ saved_tokens' = 0
    /\ reached' = <<>>
    /\ lastOp' = "reset"
    /\ out' = None
    /\ UNCHANGED <<config, system_prompt>>

Query(name, value) ==
    /\ lastOp' = name
    /\ out' = Some(value)
    /\ UNCHANGED <<config, turns, system_prompt, compression_count,
                   saved_tokens, reached>>

\* variant: rendering drops the folded turns from the store
GetMessages_Draining ==
    /\ lastOp' = "get_messages"
    /\ out' = Some(get_messages(turns))
    /\ turns' = UnsummarizedTurns(turns)
    /\ reached' = [i \in 1..Len(UnsummarizedTurns(turns)) |-> FALSE]
    /\ UNCHANGED <<config, system_prompt, compression_count, saved_tokens>>

GetMessages == Query("get_messages", get_messages(turns))

GetUsedTokens == Query("get_used_tokens", get_used_tokens(system_prompt, turns))

GetAvailableTokens ==
    Query("get_available_tokens",
          get_available_tokens(config, system_prompt, turns))

GetStats == Query("get_stats", get_stats(Mgr, system_prompt))

Next ==
    \/ \E prompt \in Prompts : SetSystemPrompt(prompt)
    \/ \E t \in TurnInputs :
          Len(turns) < MaxTurns /\ AddTurn(t.user, t.assistant, t.api_usage)
    \/ Compact
    \/ Reset
    \/ GetMessages
    \/ GetUsedTokens
    \/ GetAvailableTokens
    \/ GetStats

Spec == Init /\ [][Next]_vars

(***************************************************************************)
(* Scenario A: max_tokens = 1000, reserve_tokens = 0, threshold 0.7,       *)
(* keep_recent_messages = 10, then 15 turns of one size (79, 80 or 81      *)
(* estimated tokens), with queries in between.                             *)
(***************************************************************************)
ScenarioConfig == Config(1000, 0, 7, 10, 2000, TRUE)

ScenarioTurn(n) ==
    TurnInput([role |-> "user", content |-> StrContent(Rep("a", 105))],
              [role |-> "assistant", content |-> StrContent(Rep("b", n))],
              None)

ScenarioTurns == { ScenarioTurn(n) : n \in {101, 105, 108} }

InitA == Manager(ScenarioConfig)

AddScenarioTurn ==
    \E t \in ScenarioTurns :
        /\ Len(turns) < ScenarioTurnCount
        /\ turns # <<>> => t.assistant = turns[Len(turns)].assistant
        /\ AddTurn(t.user, t.assistant, t.api_usage)

NextA ==
    \/ AddScenarioTurn
    \/ GetMessages
    \/ GetUsedTokens
    \/ GetAvailableTokens
    \/ GetStats

SpecA == InitA /\ [][NextA]_vars

(***************************************************************************)
(* Scenario B: the default configuration with incremental compression on,  *)
(* one turn whose assistant message is a string tool result of n           *)
(* characters, for every limit and length up to the bounds and for the     *)
(* 5000 characters at limit 2000 of the scenario.                          *)
(***************************************************************************)
ToolLimits == 0..MaxLimit \cup {2000}
ToolLengths == 0..MaxToolChars \cup {5000}

DefaultConfig(max_chars) == Config(180000, 32000, 7, 10, max_chars, TRUE)

InitB == \E c \in ToolLimits : Manager(DefaultConfig(c))

AddToolResult ==
    \E n \in ToolLengths :
        /\ turns = <<>>
        /\ AddTurn(UserHi, AssistantTool(n), None)

NextB ==
    \/ AddToolResult
    \/ GetMessages
    \/ GetStats

SpecB == InitB /\ [][NextB]_vars

(***************************************************************************)
(* ContentCompressor on its own: a text of a's and newlines and a limit    *)
(* are drawn, then one of the two functions is applied; out holds the      *)
(* arguments and, after the call, the result.                              *)
(***************************************************************************)
RECURSIVE Texts(_)
Texts(n) ==
    IF n = 0 THEN { <<>> }
    ELSE Texts(n - 1)
           \cup { Append(t, c) : t \in { u \in Texts(n - 1) : Len(u) = n - 1 },
                                 c \in {"a", "\n"} }

Call(text, limit) ==
    /\ config = DefaultConfig(2000)
    /\ turns = <<>>
    /\ system_prompt = <<>>
    /\ compression_count = 0
    /\ saved_tokens = 0
    /\ lastOp = "input"
    /\ out = Some([text |-> text, limit |-> limit])
    /\ reached = <<>>

InitC == \E text \in Texts(MaxText), limit \in 0..MaxLimit : Call(text, limit)

Applied(name, result) ==
    /\ lastOp = "input"
    /\ lastOp' = name
    /\ out' = Some([text |-> out[1].text, limit |-> out[1].limit,
                    result |-> result])
    /\ UNCHANGED <<config, turns, system_prompt, compression_count,
                   saved_tokens, reached>>

CompressCodeBlock ==
    Applied("compress_code_block",
            compress_code_block(out[1].text, out[1].limit))

CompressToolOutput ==
    Applied("compress_tool_output",
            compress_tool_output(out[1].text, out[1].limit))

NextC ==
    \/ CompressCodeBlock
    \/ CompressToolOutput

SpecC == InitC /\ [][NextC]_vars

(***************************************************************************)
(* The message functions on their own: a message is drawn, plain text or a *)
(* sequence of blocks of every kind, then estimate_message_tokens,         *)
(* compress_message or create_summary is applied; out holds the message    *)
(* and, after the call, what the call returned.                            *)
(***************************************************************************)
\* Python values a block can carry under "input" and "content"
PyStr(s) == [py |-> "str", s |-> s, items |-> <<>>]
PyNone == [py |-> "none", s |-> <<>>, items |-> <<>>]
PyDict(items) == [py |-> "dict", s |-> <<>>, items |-> items]
PyList(items) == [py |-> "list", s |-> <<>>, items |-> items]

\* str(value): a str is itself, None is "None", a dict of str keys and int
\* values is "{'k': 1, ...}", a list of ints is "[1, ...]"
py_str(v) ==
    IF v.py = "str" THEN v.s
    ELSE IF v.py = "none" THEN <<"N", "o", "n", "e">>
    ELSE IF v.py = "dict"
         THEN <<"{">>
                \o JoinWith([i \in DOMAIN v.items |->
                                <<"'">> \o v.items[i].key \o <<"'", ":", " ">>
                                    \o IntToStr(v.items[i].value)],
                            <<",", " ">>)
                \o <<"}">>
    ELSE <<"[">>
           \o JoinWith([i \in DOMAIN v.items |-> IntToStr(v.items[i])],
                       <<",", " ">>)
           \o <<"]">>

ToolUseBlock(name, input) ==
    Block("tool_use", <<>>, name, py_str(input), <<>>, FALSE)
ToolResultOf(content) ==
    Block("tool_result", <<>>, <<>>, <<>>, py_str(content), content.py = "str")
ImageBlock == Block("image", <<>>, <<>>, <<>>, <<>>, FALSE)
OtherBlock(type, text) == Block(type, text, <<>>, <<>>, <<>>, FALSE)

BlockPool == {
    TextBlock(<<"h", "i">>),
    ToolUseBlock(<<"l", "s">>, PyDict(<<>>)),
    ToolUseBlock(<<"l", "s">>, PyDict(<<[key |-> <<"a">>, value |-> 1]>>)),
    ToolResultOf(PyStr(<<"a", "a", "a", "a">>)),
    ToolResultOf(PyList(<<1, 2>>)),
    ToolResultOf(PyNone),
    ImageBlock,
    OtherBlock("video", <<"h", "i">>) }

RECURSIVE BlockSeqs(_)
BlockSeqs(n) ==
    IF n = 0 THEN { <<>> }
    ELSE BlockSeqs(n - 1)
           \cup { Append(bs, b) : bs \in { u \in BlockSeqs(n - 1) : Len(u) = n - 1 },
                                  b \in BlockPool }

Messages ==
    { [role |-> "user", content |-> StrContent(t)] : t \in Texts(2) }
        \cup { [role |-> "assistant", content |-> ListContent(bs)] :
                 bs \in BlockSeqs(MaxBlocks) }

\* the limits a tool result of 4 characters is above, at, and far below
MessageLimits == 1..MaxLimit \cup {2000}

InitM ==
    \E message \in Messages, max_chars \in MessageLimits :
        /\ config = DefaultConfig(max_chars)
        /\ turns = <<>>
        /\ system_prompt = <<>>
        /\ compression_count = 0
        /\ saved_tokens = 0
        /\ lastOp = "input"
        /\ out = Some([message |-> message])
        /\ reached = <<>>

EstimateMessageTokens ==
    /\ lastOp = "input"
    /\ lastOp' = "estimate_message_tokens"
    /\ out' = Some([message |-> out[1].message,
                    result |-> estimate_message_tokens(out[1].message)])
    /\ UNCHANGED <<config, turns, system_prompt, compression_count,
                   saved_tokens, reached>>

CompressMessage ==
    /\ lastOp = "input"
    /\ lastOp' = "compress_message"
    /\ out' = Some([message |-> out[1].message,
                    result |-> compress_message(out[1].message, config)])
    /\ UNCHANGED <<config, turns, system_prompt, compression_count,
                   saved_tokens, reached>>

\* a batch of n turns: the message as the assistant half of the odd turns
\* and as the user half of the even ones
SummaryBatch(message, n) ==
    [k \in 1..n |->
        IF k % 2 = 1 THEN [user |-> UserHi, assistant |-> message]
        ELSE [user |-> message, assistant |-> AssistantOk]]

CreateSummary ==
    /\ lastOp = "input"
    /\ lastOp' = "create_summary"
    /\ \E n \in 0..MaxBatch :
           out' = Some([message |-> out[1].message,
                        batch |-> SummaryBatch(out[1].message, n),
                        result |-> create_summary(
                                       SummaryBatch(out[1].message, n))])
    /\ UNCHANGED <<config, turns, system_prompt, compression_count,
                   saved_tokens, reached>>

NextM ==
    \/ EstimateMessageTokens
    \/ CompressMessage
    \/ CreateSummary

SpecM == InitM /\ [][NextM]_vars

(***************************************************************************)
(* estimate_tokens on its own: one call on a text put together from pieces *)
(***************************************************************************)
\* a character of each of the two ranges, one beyond them (U+AC00), a code
\* keyword, the fence, a structural character, a newline, a letter, a space
Pieces == {
    <<"U+4E2D">>, <<"U+3042">>, <<"U+AC00">>,
    <<"c","l","a","s","s"," ">>, Fence,
    <<";">>, <<"\n">>, <<"a">>, <<" ">> }

RECURSIVE PieceTexts(_)
PieceTexts(n) ==
    IF n = 0 THEN { <<>> }
    ELSE PieceTexts(n - 1)
           \cup { t \o p : t \in PieceTexts(n - 1), p \in Pieces }

InitE ==
    \E text \in PieceTexts(MaxPieces) :
        /\ config = DefaultConfig(2000)
        /\ turns = <<>>
        /\ system_prompt = <<>>
        /\ compression_count = 0
        /\ saved_tokens = 0
        /\ lastOp = "input"
        /\ out = Some([text |-> text])
        /\ reached = <<>>

EstimateTokens ==
    /\ lastOp = "input"
    /\ lastOp' = "estimate_tokens"
    /\ out' = Some([text |-> out[1].text,
                    result |-> estimate_tokens(out[1].text)])
    /\ UNCHANGED <<config, turns, system_prompt, compression_count,
                   saved_tokens, reached>>

NextE == EstimateTokens

SpecE == InitE /\ [][NextE]_vars

(***************************************************************************)
(* Properties                                                              *)
(***************************************************************************)
Keep == config.keep_recent_messages
UsedTokens == get_used_tokens(system_prompt, turns)
FoldedPrefix(n) == \A i \in DOMAIN turns : turns[i].summarized <=> i <= n

\* C1 (tail protection): whatever keep_recent_messages = k >= 0 the manager
\* was built with and whatever add_turn / compact() calls were made, none of
\* the k most recently added turns is marked summarized.
C1_TailProtection ==
    \A i \in DOMAIN turns : i > Len(turns) - Keep => ~turns[i].summarized

\* a compaction pass has folded the oldest turn of three and left the two
\* protected ones alone
C1_Witness ==
    /\ Keep = 2
    /\ Len(turns) = 3
    /\ compression_count >= 1
    /\ turns[1].summarized

\* C2 (compression non-increase): every stored turn has
\* token_estimate <= original_tokens.
C2_NonIncrease ==
    \A i \in DOMAIN turns : turns[i].token_estimate <= turns[i].original_tokens

\* C3 (bounded context): with keep_recent_messages >= 1, an empty system
\* prompt and turns of one estimated size s, no usage reported, such that
\* keep * s is below the threshold, get_used_tokens() <= max_tokens after
\* every add_turn.
C3_BoundedContext ==
    ( /\ lastOp = "add_turn"
      /\ Keep >= 1
      /\ system_prompt = <<>>
      /\ \A i \in DOMAIN turns :
            /\ turns[i].api_usage = None
            /\ turns[i].token_estimate = turns[1].token_estimate
      /\ Keep * turns[1].token_estimate < threshold(config) )
    => UsedTokens <= config.max_tokens

C4_HasSummary(t) == t.summarized /\ t.summary # None /\ t.summary # Some(<<>>)
C4_Reported(opt) == IF Len(opt) = 1 THEN opt[1] ELSE 0
C4_Total(share(_)) == SumSeq([i \in DOMAIN turns |-> share(turns[i])])

\* C4 (used tokens): get_used_tokens() is the estimate of the system prompt
\* plus three sums: over the turns that are summarized and carry a summary,
\* the estimate of the turn's own summary (usage or not); over the other
\* turns with reported usage, input + cache_creation + cache_read + output +
\* thinking with a missing count as 0; over the rest, token_estimate.
C4_UsedTokens ==
    lastOp = "get_used_tokens" =>
        out = Some(
            estimate_tokens(system_prompt)
            + C4_Total(LAMBDA t :
                  IF C4_HasSummary(t) THEN estimate_tokens(t.summary[1]) ELSE 0)
            + C4_Total(LAMBDA t :
                  IF ~C4_HasSummary(t) /\ t.api_usage # None
                  THEN t.api_usage[1].input_tokens
                       + C4_Reported(t.api_usage[1].cache_creation_tokens)
                       + C4_Reported(t.api_usage[1].cache_read_tokens)
                       + t.api_usage[1].output_tokens
                       + C4_Reported(t.api_usage[1].thinking_tokens)
                  ELSE 0)
            + C4_Total(LAMBDA t :
                  IF ~C4_HasSummary(t) /\ t.api_usage = None
                  THEN t.token_estimate ELSE 0))

\* get_used_tokens() was asked of a store holding all three kinds of turn:
\* a folded one with usage, an unfolded one with partly missing usage counts
\* (whose total differs from its estimate), and one with no usage
C4_Witness ==
    /\ lastOp = "get_used_tokens"
    /\ \E i, j, l \in DOMAIN turns :
          /\ turns[i].summarized /\ turns[i].api_usage # None
          /\ ~turns[j].summarized /\ turns[j].api_usage # None
          /\ turns[j].api_usage[1].thinking_tokens = None
          /\ usage_total(turns[j].api_usage[1]) # turns[j].token_estimate
          /\ ~turns[l].summarized /\ turns[l].api_usage = None

\* C5 as claimed (scenario A): after the 15 turns get_stats() reports
\* compression_count = 1.
C5_OnePass ==
    (lastOp = "get_stats" /\ Len(turns) = 15) => out[1].compression_count = 1

\* C5 as amended (scenario A): after the 15 turns get_stats() reports
\* compression_count = 5, one pass for each of the add_turn calls 11 to 15.
C5_FivePasses ==
    (lastOp = "get_stats" /\ Len(turns) = 15) => out[1].compression_count = 5

\* get_stats() after the 15th turn of scenario A, the 5 oldest turns folded
C5_Witness ==
    /\ lastOp = "get_stats"
    /\ Len(turns) = 15
    /\ FoldedPrefix(5)
    /\ out[1].summarized_messages = 10
    /\ \A i \in DOMAIN turns : turns[i].token_estimate \in 79..81

\* C6 (folding): when n > keep turns are stored and each of the last
\* n - keep add_turn calls found the used tokens at or above the threshold,
\* exactly the n - keep oldest turns are summarized and get_messages()
\* returns 2 + 2 * keep messages.
C6_Folding ==
    ( /\ Len(turns) > Keep
      /\ \A i \in DOMAIN turns : i > Keep => reached[i] )
    => /\ FoldedPrefix(Len(turns) - Keep)
       /\ Len(get_messages(turns)) = 2 + 2 * Keep

\* C7 (no-op guard): a compact() call made while the store holds at most
\* keep_recent_messages turns changes no stored turn, leaves saved_tokens
\* alone and does not count a pass.
C7_NoOpGuard ==
    [][ (lastOp' = "compact" /\ Len(turns) <= Keep)
        => /\ turns' = turns
           /\ saved_tokens' = saved_tokens
           /\ compression_count' = compression_count ]_vars

\* compact() has just returned on a non-empty store of at most keep turns
\* (only reset() shrinks the store, so the call saw the same turns)
C7_Witness ==
    /\ lastOp = "compact"
    /\ turns # <<>>
    /\ Len(turns) <= Keep
    /\ compression_count = 0

C8_Folded == SelectSeq(turns, LAMBDA t : t.summarized)
C8_Raw == SelectSeq(turns, LAMBDA t : ~t.summarized)

\* C8 (shape of get_messages): with a summarized turn, one user message
\* holding create_summary of all summarized turns in order, the fixed
\* acknowledgment, then the pairs of the unsummarized turns in order,
\* 2 + 2 * (unsummarized turns) messages; otherwise the stored pairs in
\* order, 2 * (turns) messages.
C8_Shape ==
    lastOp = "get_messages" =>
        LET msgs == out[1]
            lead == IF C8_Folded # <<>> THEN 2 ELSE 0
        IN  /\ Len(msgs) = lead + 2 * Len(C8_Raw)
            /\ C8_Folded # <<>> =>
                  /\ msgs[1] = [role |-> "user",
                                content |-> StrContent(create_summary(C8_Folded))]
                  /\ msgs[2] = [role |-> "assistant",
                                content |-> StrContent(AckText)]
            /\ C8_Folded = <<>> => Len(msgs) = 2 * Len(turns)
            /\ \A j \in DOMAIN C8_Raw :
                  /\ msgs[lead + 2 * j - 1] = C8_Raw[j].user
                  /\ msgs[lead + 2 * j] = C8_Raw[j].assistant

\* get_messages() was asked of a store with two folded turns and one raw turn
C8_Witness ==
    /\ lastOp = "get_messages"
    /\ Len(C8_Folded) = 2
    /\ Len(C8_Raw) = 1
    /\ Len(out[1]) = 4

\* C9 (idempotent re-render): a get_messages() call changes nothing of the
\* manager, and when the call before it was also get_messages() it returns
\* the same sequence.
C9_Rerender ==
    [][ lastOp' = "get_messages"
        => /\ UNCHANGED <<config, turns, system_prompt, compression_count,
                          saved_tokens>>
           /\ lastOp = "get_messages" => out' = out ]_vars

\* get_messages() has rendered a store that holds folded and raw turns
C9_Witness ==
    /\ lastOp = "get_messages"
    /\ \E i, j \in DOMAIN turns : turns[i].summarized /\ ~turns[j].summarized
    /\ out = Some(get_messages(turns))

\* C10 (forced batch): for every keep_recent_messages = k >= 0 and every
\* store of n > k turns, after compact() exactly the first n - k turns are
\* summarized.
C10_ForcedBatch ==
    (lastOp = "compact" /\ Len(turns) > Keep) => FoldedPrefix(Len(turns) - Keep)

C12_Added(n) ==
    /\ lastOp = "add_turn"
    /\ Len(turns) = 1
    /\ turns[1].assistant = compress_message(AssistantTool(n), config)
    /\ turns[1].original_tokens =
           estimate_message_tokens(UserHi)
               + estimate_message_tokens(AssistantTool(n))

C12_StoredChars == Len(turns[1].assistant.content.blocks[1].content)

\* length of the marker "\n... [<omitted> chars omitted] ...\n"
C12_MarkerLen(omitted) ==
    1 + Len(MarkerOpen) + Len(IntToStr(omitted)) + Len(CharsOmitted) + 1

C13_MarkerLines == 4

C13_Lines(text) == Len(Split(text, "\n"))

\* C13: for any text and any limit >= 0, 0 included, compress_code_block
\* returns at most max_lines lines plus the marker lines and
\* compress_tool_output at most max_chars characters plus the marker; both
\* return a text within the limit unchanged.
C13_CompressionSafety ==
    /\ lastOp = "compress_code_block" =>
          LET c == out[1]
          IN  /\ C13_Lines(c.result) <= c.limit + C13_MarkerLines
              /\ C13_Lines(c.text) <= c.limit => c.result = c.text
    /\ lastOp = "compress_tool_output" =>
          LET c == out[1]
          IN  IF Len(c.text) <= c.limit THEN c.result = c.text
              ELSE Len(c.result)
                     <= c.limit + C12_MarkerLen(Len(c.text) - c.limit)

\* C14: summarized is monotone: a stored turn whose summarized flag is true
\* keeps it true across every later add_turn and compact (and every other
\* operation that keeps the turn in the store).
C14_SummarizedMonotone ==
    [][\A i \in DOMAIN turns :
          (i <= Len(turns') /\ turns[i].summarized) => turns'[i].summarized]_vars

\* a turn folded by one pass is still folded after a second pass
C14_Witness ==
    /\ lastOp \in {"add_turn", "compact"}
    /\ compression_count = 2
    /\ Len(turns) >= 2
    /\ turns[1].summarized
    /\ turns[2].summarized
    /\ turns[1].summary # turns[2].summary

\* a stored turn without the two fields a compaction pass writes
C15_Entry(t) == [t EXCEPT !.summarized = FALSE, !.summary = None]

\* C15: add_turn appends exactly one turn at the end of the store; add_turn,
\* compact, set_system_prompt and the queries remove and reorder nothing, so
\* the turns stay in insertion order and the count never drops before a reset.
C15_StoreGrowth ==
    [][lastOp' # "reset" =>
          /\ Len(turns') =
                 Len(turns) + (IF lastOp' = "add_turn" THEN 1 ELSE 0)
          /\ \A i \in DOMAIN turns :
                 C15_Entry(turns'[i]) = C15_Entry(turns[i])]_vars

\* three different turns, stored in the order they were added, after a pass
C15_Witness ==
    /\ lastOp = "add_turn"
    /\ Len(turns) = 3
    /\ turns[1].assistant = AssistantOk
    /\ turns[2].assistant \notin {turns[1].assistant, turns[3].assistant}
    /\ turns[3].assistant # AssistantOk
    /\ turns[1].summarized

\* C16: get_available_tokens() returns max_tokens - reserve_tokens -
\* get_used_tokens() in every reachable state, negative values included:
\* nothing clamps the value.
C16_Available ==
    lastOp = "get_available_tokens" =>
        out[1] = config.max_tokens - config.reserve_tokens - UsedTokens

\* an overdrawn budget with a reserve strictly between 0 and the window
C16_Witness ==
    /\ lastOp = "get_available_tokens"
    /\ config.reserve_tokens > 0
    /\ config.reserve_tokens < config.max_tokens
    /\ UsedTokens > config.max_tokens
    /\ out[1] < 0

\* C17: with reserve_tokens >= max_tokens and no negative usage reported,
\* get_available_tokens() is at most 0 in every reachable state, whatever
\* add_turn, compact and the queries have done before.
C17_Exhaustion ==
    config.reserve_tokens >= config.max_tokens =>
        /\ get_available_tokens(config, system_prompt, turns) <= 0
        /\ lastOp = "get_available_tokens" => out[1] <= 0

\* the query answered below 0 after turns were added and a pass has run, with
\* a reserve above the window
C17_Witness ==
    /\ config.reserve_tokens > config.max_tokens
    /\ lastOp = "get_available_tokens"
    /\ Len(turns) >= 2
    /\ compression_count >= 1
    /\ out[1] < 0

\* C18: reset() empties the store and zeroes saved_tokens and
\* compression_count, leaves the system prompt and the configuration as they
\* were, and get_used_tokens() is then the estimate of the prompt alone.
C18_ResetFrame ==
    [][lastOp' = "reset" =>
          /\ turns' = <<>>
          /\ saved_tokens' = 0
          /\ compression_count' = 0
          /\ system_prompt' = system_prompt
          /\ config' = config
          /\ get_used_tokens(system_prompt', turns')
                 = estimate_tokens(system_prompt)]_vars

\* a manager reset while it had a system prompt
C18_Witness ==
    /\ lastOp = "reset"
    /\ system_prompt # <<>>
    /\ turns = <<>>
    /\ UsedTokens = estimate_tokens(system_prompt)
    /\ UsedTokens > 0

\* C19: set_system_prompt(text) replaces the prompt and nothing else: the
\* stored turns, saved_tokens and compression_count are unchanged and no
\* compaction pass runs, even when the new prompt lifts get_used_tokens() to
\* the threshold or above.
C19_PromptFrame ==
    [][lastOp' = "set_system_prompt" =>
          /\ turns' = turns
          /\ saved_tokens' = saved_tokens
          /\ compression_count' = compression_count
          /\ config' = config]_vars

\* a prompt that lifted the store to the threshold, with an unfolded turn
\* before the protected tail that a pass would have folded
C19_Witness ==
    /\ lastOp = "set_system_prompt"
    /\ Keep >= 1
    /\ Len(turns) > Keep
    /\ ~turns[1].summarized
    /\ UsedTokens >= threshold(config)
    /\ UsedTokens - estimate_tokens(system_prompt) < threshold(config)
    /\ compression_count = 0

\* C20: get_stats() reports total_messages = 2 * turns, summarized_messages =
\* 2 * summarized turns, estimated_tokens = get_used_tokens(), and the two
\* running counters; so summarized_messages <= total_messages.
C20_Stats ==
    lastOp = "get_stats" =>
        LET stats == out[1]
        IN  /\ stats.total_messages = 2 * Len(turns)
            /\ stats.summarized_messages =
                   2 * Cardinality({i \in DOMAIN turns : turns[i].summarized})
            /\ stats.estimated_tokens = UsedTokens
            /\ stats.saved_tokens = saved_tokens
            /\ stats.compression_count = compression_count
            /\ stats.summarized_messages <= stats.total_messages

\* statistics of a store with folded and unfolded turns and non-zero counters
C20_Witness ==
    /\ lastOp = "get_stats"
    /\ out[1].summarized_messages >= 2
    /\ out[1].total_messages > out[1].summarized_messages
    /\ out[1].saved_tokens > 0
    /\ out[1].compression_count >= 1

\* C21: Scenario C: a manager with an empty store and an empty system prompt
\* has get_used_tokens() = 0, get_available_tokens() = max_tokens -
\* reserve_tokens, get_stats().total_messages = 0 and no messages to send.
C21_ScenarioC ==
    (turns = <<>> /\ system_prompt = <<>>) =>
        /\ get_used_tokens(system_prompt, turns) = 0
        /\ get_available_tokens(config, system_prompt, turns)
               = config.max_tokens - config.reserve_tokens
        /\ get_stats(Mgr, system_prompt).total_messages = 0
        /\ get_messages(turns) = <<>>
        /\ lastOp = "get_used_tokens" => out[1] = 0
        /\ lastOp = "get_available_tokens" =>
               out[1] = config.max_tokens - config.reserve_tokens
        /\ lastOp = "get_stats" => out[1].total_messages = 0
        /\ lastOp = "get_messages" => out[1] = <<>>

\* the budget query on a manager nothing was added to, with a reserve
C21_Witness ==
    /\ turns = <<>>
    /\ system_prompt = <<>>
    /\ reached = <<>>
    /\ saved_tokens = 0
    /\ lastOp = "get_available_tokens"
    /\ config.reserve_tokens > 0
    /\ out[1] = config.max_tokens - config.reserve_tokens

\* what a block adds to the estimate of its message
C22_Charge(block) ==
    CASE block.type = "text" -> estimate_tokens(block.text)
      [] block.type = "tool_use" ->
             estimate_tokens(block.name) + estimate_tokens(block.input)
      [] block.type = "tool_result" -> estimate_tokens(block.content)
      [] block.type = "image" -> 1000
      [] OTHER -> 0

\* C22: estimate_message_tokens is at least 10 for every message: plain text
\* gives estimate_tokens(text) + 10, a block sequence gives 10 plus, per
\* block, the estimate of the text (text), of the name and of str(input)
\* (tool_use), of str(content) (tool_result), 1000 (image), 0 (any other type).
C22_MessageEstimate ==
    lastOp = "estimate_message_tokens" =>
        LET m == out[1].message
            blocks == m.content.blocks
        IN  /\ out[1].result >= 10
            /\ m.content.kind = "str" =>
                   out[1].result = estimate_tokens(m.content.text) + 10
            /\ m.content.kind = "list" =>
                   out[1].result =
                       10 + SumSeq([i \in DOMAIN blocks |-> C22_Charge(blocks[i])])

\* a tool invocation with input {'a': 1} (1 + 3 tokens) next to a block of an
\* unknown type, estimated at 14
C22_Witness ==
    /\ lastOp = "estimate_message_tokens"
    /\ out[1].message.content.kind = "list"
    /\ Len(out[1].message.content.blocks) = 2
    /\ out[1].message.content.blocks[1].type = "tool_use"
    /\ out[1].message.content.blocks[1].input
           = <<"{", "'", "a", "'", ":", " ", "1", "}">>
    /\ out[1].message.content.blocks[2].type = "video"
    /\ out[1].result = 14

\* the store a pass starts from: for add_turn the old store with the new turn
\* appended, for compact the store as it is
BeforePass ==
    IF lastOp' = "add_turn"
    THEN Append(turns, [turns'[Len(turns')] EXCEPT !.summarized = FALSE,
                                                  !.summary = None])
    ELSE turns

\* C23: a compaction pass, automatic or forced, that newly marks at least one
\* turn summarized does not increase get_used_tokens().
C23_FreesBudget ==
    [][(/\ lastOp' \in {"add_turn", "compact"}
        /\ Len(turns') = Len(BeforePass)
        /\ \E i \in DOMAIN turns' :
              turns'[i].summarized /\ ~BeforePass[i].summarized)
       => get_used_tokens(system_prompt, turns')
              <= get_used_tokens(system_prompt, BeforePass)]_vars

\* C24: a pass renders one summary over the whole eligible batch, every turn
\* but the most recent keep, the already summarized ones included, and
\* attaches it to the turns it newly marks; a turn summarized by an earlier
\* pass keeps the summary it received then.
C24_SummaryAttachment ==
    [][lastOp' \in {"add_turn", "compact"} =>
          LET batch == SubSeq(BeforePass, 1, Len(BeforePass) - Keep)
          IN  /\ Len(turns') = Len(BeforePass)
              /\ \A i \in DOMAIN BeforePass :
                    IF BeforePass[i].summarized
                    THEN turns'[i].summary = BeforePass[i].summary
                    ELSE turns'[i].summarized =>
                             turns'[i].summary = Some(create_summary(batch))]_vars

\* two passes: the first turn carries the summary of the first batch, the
\* second turn the summary of both
C24_Witness ==
    /\ Len(turns) = 3
    /\ turns[1].summarized
    /\ turns[2].summarized
    /\ ~turns[3].summarized
    /\ turns[1].summary = Some(create_summary(SubSeq(turns, 1, 1)))
    /\ turns[2].summary = Some(create_summary(SubSeq(turns, 1, 2)))

\* saved_tokens when the pass starts: for add_turn the compression step has
\* already added what the new turn saved
C25_SavedBeforePass ==
    IF lastOp' = "add_turn"
    THEN LET t == turns'[Len(turns')]
         IN  saved_tokens
               + (IF t.compressed THEN t.original_tokens - t.token_estimate
                  ELSE 0)
    ELSE saved_tokens

\* C25: every pass that gets past the turn-count guard, one that newly
\* summarizes nothing included, adds 1 to compression_count and
\* max(0, before_tokens - estimate_tokens(summary)) to saved_tokens, where
\* before_tokens sums token_estimate over the whole eligible batch; neither
\* counter ever decreases except by reset().
C25_PassCounters ==
    [][/\ lastOp' # "reset" =>
             /\ saved_tokens' >= saved_tokens
             /\ compression_count' >= compression_count
       /\ (/\ \/ lastOp' = "compact"
              \/ lastOp' = "add_turn" /\ reached'[Len(reached')]
           /\ Len(BeforePass) > Keep)
          => LET batch == SubSeq(BeforePass, 1, Len(BeforePass) - Keep)
                 before_tokens ==
                     SumSeq([i \in DOMAIN batch |-> batch[i].token_estimate])
                 summary == create_summary(batch)
             IN  /\ compression_count' = compression_count + 1
                 /\ saved_tokens' =
                        C25_SavedBeforePass
                          + Max(0, before_tokens - estimate_tokens(summary))]_vars

\* what the compression step of add_turn saved on a stored turn
C26_Saved(t) ==
    IF t.compressed THEN t.original_tokens - t.token_estimate ELSE 0

\* C26: with incremental compression on, a stored turn has compressed = TRUE
\* exactly when token_estimate < original_tokens, and the compression step
\* adds original_tokens - token_estimate to saved_tokens in that case and
\* nothing otherwise: before any pass, saved_tokens is the sum over the turns.
C26_Bookkeeping ==
    config.enable_incremental_compression =>
        /\ \A i \in DOMAIN turns :
              turns[i].compressed
                  <=> turns[i].token_estimate < turns[i].original_tokens
        /\ compression_count = 0 =>
              saved_tokens = SumSeq([i \in DOMAIN turns |-> C26_Saved(turns[i])])

\* a store, before any pass, with a turn that compression shrank and one it
\* did not
C26_Witness ==
    /\ config.enable_incremental_compression
    /\ lastOp = "add_turn"
    /\ compression_count = 0
    /\ Len(turns) = 2
    /\ turns[1].compressed
    /\ ~turns[2].compressed
    /\ turns[2].token_estimate > turns[2].original_tokens
    /\ saved_tokens = turns[1].original_tokens - turns[1].token_estimate
    /\ saved_tokens > 0

\* C27: with incremental compression off, add_turn stores both messages
\* exactly as given, with compressed = FALSE and token_estimate =
\* original_tokens, and saved_tokens moves only through compaction passes.
C27_Uncompressed ==
    ~config.enable_incremental_compression =>
        /\ \A i \in DOMAIN turns :
              /\ TurnInput(turns[i].user, turns[i].assistant, turns[i].api_usage)
                     \in TurnInputs
              /\ ~turns[i].compressed
              /\ turns[i].token_estimate = turns[i].original_tokens
              /\ turns[i].token_estimate =
                     estimate_message_tokens(turns[i].user)
                         + estimate_message_tokens(turns[i].assistant)
        /\ compression_count = 0 => saved_tokens = 0

\* a 60-character tool result kept whole under a limit of 3
C27_Witness ==
    /\ ~config.enable_incremental_compression
    /\ lastOp = "add_turn"
    /\ Len(turns) >= 1
    /\ turns[Len(turns)].assistant = AssistantTool(60)
    /\ config.tool_output_max_chars = 3
    /\ saved_tokens = 0

\* what get_used_tokens() counts for the summarized turns: each one's own
\* stored summary
C28_Accounted ==
    SumSeq([i \in DOMAIN turns |->
               IF turns[i].summarized
               THEN estimate_tokens(turns[i].summary[1]) ELSE 0])

\* the estimate of the one summary message get_messages() sends
C28_Sent == estimate_tokens(get_messages(turns)[1].content.text)

\* C28: the accounting of get_used_tokens() and the content of get_messages()
\* diverge in reachable states: whenever two or more turns are summarized, as
\* after two passes, the estimates of their stored summaries add up to
\* something else than the estimate of the combined summary that is sent.
C28_Divergence ==
    Cardinality({i \in DOMAIN turns : turns[i].summarized}) >= 2 =>
        C28_Accounted # C28_Sent

\* after two passes that folded one turn each
C28_Witness ==
    /\ compression_count >= 2
    /\ Len(turns) = 3
    /\ turns[1].summarized
    /\ turns[2].summarized
    /\ turns[1].summary # turns[2].summary
    /\ C28_Accounted > C28_Sent
    /\ lastOp = "get_messages"
    /\ estimate_tokens(out[1][1].content.text) = C28_Sent

\* C29: when compact() is called twice with no add_turn in between, the second
\* call changes no summarized flag and no summary, and get_messages() and
\* get_used_tokens() return what they returned before it.
C29_RepeatedCompact ==
    [][(lastOp = "compact" /\ lastOp' = "compact") =>
          /\ Len(turns') = Len(turns)
          /\ \A i \in DOMAIN turns :
                /\ turns'[i].summarized = turns[i].summarized
                /\ turns'[i].summary = turns[i].summary
          /\ get_messages(turns') = get_messages(turns)
          /\ get_used_tokens(system_prompt', turns')
                 = get_used_tokens(system_prompt, turns)]_vars

\* the state after the second of two compact() calls in a row, both of which
\* got past the guards, on a store with folded turns
C29_Witness ==
    /\ lastOp = "compact"
    /\ compression_count = 2
    /\ Len(turns) = 3
    /\ turns[1].summarized
    /\ turns[2].summarized
    /\ turns[1].summary = turns[2].summary
    /\ \A i \in DOMAIN reached : ~reached[i]

C30_Folded == Cardinality({i \in DOMAIN turns : turns[i].summarized})

\* C30: the summarized turns form a prefix of the store; each of them has a
\* non-empty summary and every other turn has none; so get_messages() is in
\* chronological order: the summary pair, then the pairs of the remaining
\* suffix of turns.
C30_SummarizedPrefix ==
    /\ \A i, j \in DOMAIN turns :
          (i < j /\ turns[j].summarized) => turns[i].summarized
    /\ \A i \in DOMAIN turns :
          IF turns[i].summarized
          THEN turns[i].summary # None /\ turns[i].summary[1] # <<>>
          ELSE turns[i].summary = None
    /\ lastOp = "get_messages" =>
          LET lead == IF C30_Folded > 0 THEN 2 ELSE 0
              rest == Len(turns) - C30_Folded
          IN  /\ Len(out[1]) = lead + 2 * rest
              /\ \A k \in 1..rest :
                    /\ out[1][lead + 2 * k - 1] = turns[C30_Folded + k].user
                    /\ out[1][lead + 2 * k] = turns[C30_Folded + k].assistant

\* one folded turn followed by two unfolded ones, rendered as summary pair
\* plus two pairs
C30_Witness ==
    /\ lastOp = "get_messages"
    /\ Len(turns) = 3
    /\ turns[1].summarized
    /\ ~turns[2].summarized
    /\ ~turns[3].summarized
    /\ Len(out[1]) = 6
    /\ out[1][3] = turns[2].user
    /\ out[1][6] = turns[3].assistant

\* C31: once a turn is stored, no add_turn or compact() call changes its user
\* message, assistant message, token_estimate, original_tokens, compressed
\* flag or usage record; a compaction pass changes only the summarized flag
\* and the summary string, and only of turns outside the most recent
\* keep_recent_messages.
C31_StoredTurnFrame ==
    [][lastOp' \in {"add_turn", "compact"} =>
          /\ Len(turns') = Len(BeforePass)
          /\ \A i \in DOMAIN BeforePass :
                 /\ turns'[i].user = BeforePass[i].user
                 /\ turns'[i].assistant = BeforePass[i].assistant
                 /\ turns'[i].token_estimate = BeforePass[i].token_estimate
                 /\ turns'[i].original_tokens = BeforePass[i].original_tokens
                 /\ turns'[i].compressed = BeforePass[i].compressed
                 /\ turns'[i].api_usage = BeforePass[i].api_usage
                 /\ i > Len(turns') - Keep => turns'[i] = BeforePass[i]]_vars

\* a pass has folded a turn that was compressed on entry and carries a usage
\* record, and has left the newest turn unfolded
C31_Witness ==
    /\ lastOp \in {"add_turn", "compact"}
    /\ compression_count > 0
    /\ \E i \in DOMAIN turns :
           /\ turns[i].summarized
           /\ turns[i].compressed
           /\ turns[i].api_usage # None
    /\ ~turns[Len(turns)].summarized

\* the first n lines and the last n lines of a text, as the claim counts them
C32_FirstLines(lines, n) == SubSeq(lines, 1, n)
C32_LastLines(lines, n) == SubSeq(lines, Len(lines) - n + 1, Len(lines))

\* C32: on a text of more than max_lines lines, for every max_lines >= 0,
\* compress_code_block keeps the first floor(0.6 * max_lines) lines and the
\* last max_lines - floor(0.6 * max_lines) lines, with the marker between
\* them, and the number in the marker is the number of input lines that are
\* not in the output.
C32_CodeBlockKeeps ==
    lastOp = "compress_code_block" =>
        LET c == out[1]
            lines == Split(c.text, "\n")
            keep_head == (6 * c.limit) \div 10
            keep_tail == c.limit - keep_head
            kept == C32_FirstLines(lines, keep_head)
                        \o C32_LastLines(lines, keep_tail)
        IN  Len(lines) > c.limit =>
                c.result =
                    JoinWith(C32_FirstLines(lines, keep_head), <<"\n">>)
                        \o <<"\n", "\n">> \o MarkerOpen
                        \o IntToStr(Len(lines) - Len(kept)) \o LinesOmitted
                        \o <<"\n", "\n">>
                        \o JoinWith(C32_LastLines(lines, keep_tail), <<"\n">>)

C34_MessageFrame ==
    lastOp = "compress_message" =>
        LET m == out[1].message
            r == out[1].result
            max_chars == config.tool_output_max_chars
        IN  /\ m \in Messages
            /\ r.role = m.role
            /\ r.content.kind = m.content.kind
            /\ r.content.text = m.content.text
            /\ m.content.kind = "str" => r = m
            /\ Len(r.content.blocks) = Len(m.content.blocks)
            /\ \A i \in DOMAIN m.content.blocks :
                   LET b == m.content.blocks[i]
                   IN  IF b.type = "tool_result" /\ b.content_is_str
                       THEN r.content.blocks[i] =
                                [b EXCEPT !.content =
                                     compress_tool_output(b.content, max_chars)]
                       ELSE r.content.blocks[i] = b

\* a string tool result that was cut, followed by a list tool result longer
\* than the limit that was not
C34_Witness ==
    /\ lastOp = "compress_message"
    /\ Len(out[1].message.content.blocks) = 2
    /\ out[1].message.content.blocks[1].type = "tool_result"
    /\ out[1].message.content.blocks[1].content_is_str
    /\ out[1].result.content.blocks[1] # out[1].message.content.blocks[1]
    /\ out[1].message.content.blocks[2].type = "tool_result"
    /\ ~out[1].message.content.blocks[2].content_is_str
    /\ Len(out[1].message.content.blocks[2].content)
           > config.tool_output_max_chars
    /\ out[1].result.content.blocks[2] = out[1].message.content.blocks[2]

\* the texts a list of blocks flattens to: text-block text and the string
\* form of tool-result content; every other block gives nothing
RECURSIVE C35_Parts(_)
C35_Parts(blocks) ==
    IF blocks = <<>> THEN <<>>
    ELSE LET b == Head(blocks)
         IN  (IF b.type = "text" THEN <<b.text>>
              ELSE IF b.type = "tool_result" THEN <<b.content>>
              ELSE <<>>)
                 \o C35_Parts(Tail(blocks))

C35_Flat(message) ==
    IF message.content.kind = "str" THEN message.content.text
    ELSE JoinWith(C35_Parts(message.content.blocks), <<" ">>)

RECURSIVE C35_Entries(_)
C35_Entries(batch) ==
    IF batch = <<>> THEN <<>>
    ELSE << UserPrefix \o C35_Flat(Head(batch).user),
            AssistantPrefix \o C35_Flat(Head(batch).assistant) >>
             \o C35_Entries(Tail(batch))

\* C35: create_summary(turns) is, for each turn in stored order, the entry
\* "User: <flattened user text>" followed by "Assistant: <flattened assistant
\* text>", joined by newlines; flattening keeps plain text, text-block text
\* and stringified tool-result content and drops tool-invocation and image
\* blocks; n turns give exactly 2n entries.
C35_SummaryEntries ==
    lastOp = "create_summary" =>
        /\ Len(C35_Entries(out[1].batch)) = 2 * Len(out[1].batch)
        /\ out[1].result = JoinWith(C35_Entries(out[1].batch), <<"\n">>)

\* two turns around a message of a tool invocation and a list tool result:
\* only the tool result is in the summary
C35_Witness ==
    /\ lastOp = "create_summary"
    /\ Len(out[1].batch) = 2
    /\ Len(out[1].message.content.blocks) = 2
    /\ out[1].message.content.blocks[1].type = "tool_use"
    /\ out[1].message.content.blocks[2].type = "tool_result"
    /\ ~out[1].message.content.blocks[2].content_is_str
    /\ out[1].result =
           UserPrefix \o <<"h", "i", "\n">>
               \o AssistantPrefix \o <<"[", "1", ",", " ", "2", "]", "\n">>
               \o UserPrefix \o <<"[", "1", ",", " ", "2", "]", "\n">>
               \o AssistantPrefix \o <<"o", "k">>

\* twice the divisor d of the claim: 2.0 with a character of the CJK or
\* Japanese ranges, else 3.0 for a text that looks like code, else 3.5
C36_Divisor_x2(text) ==
    IF \E i \in DOMAIN text : text[i] \in AsianChars THEN 4
    ELSE IF has_code(text) THEN 6
    ELSE 7

\* 10 * d2 times len/d + 0.1 * punctuation + 0.5 * newlines, for d2 = 2d
C36_Weight(text, d2) ==
    20 * Len(text)
        + d2 * Cardinality({i \in DOMAIN text : text[i] \in SpecialChars})
        + 5 * d2 * Cardinality({i \in DOMAIN text : text[i] = "\n"})

\* C36: estimate_tokens is non-negative, 0 for the empty text, and otherwise
\* the ceiling of len(text)/d + 0.1 * (structural punctuation) + 0.5 *
\* (newlines), with d = 2.0 for a text with a CJK/Japanese-range character,
\* also when it looks like code, else 3.0 for code, else 3.5.
C36_EstimateCeiling ==
    lastOp = "estimate_tokens" =>
        LET text == out[1].text
            r == out[1].result
            d2 == C36_Divisor_x2(text)
        IN  /\ r >= 0
            /\ text = <<>> => r = 0
            /\ text # <<>> =>
                   /\ 10 * d2 * r >= C36_Weight(text, d2)
                   /\ 10 * d2 * (r - 1) < C36_Weight(text, d2)

\* a text with a CJK character, a code keyword and a structural character:
\* 8 characters at d = 2.0 plus 0.1, rounded up
C36_Witness ==
    /\ lastOp = "estimate_tokens"
    /\ has_code(out[1].text)
    /\ \E i \in DOMAIN out[1].text : out[1].text[i] = "U+4E2D"
    /\ \E i \in DOMAIN out[1].text : out[1].text[i] = ";"
    /\ Len(out[1].text) = 8
    /\ out[1].result = 5

====
